---- MODULE Spec2Model ----
(***************************************************************************)
(* Model of vibe_monitor.py (and the tracker of cascade_monitor.py): a     *)
(* FileChangeHandler that records accepted file changes, and a poll loop   *)
(* that plays one notification once the quiet threshold has elapsed.       *)
(*                                                                         *)
(* Python strings are modelled as sequences of one-character strings, so   *)
(* that lower(), normpath(), dirname(), basename(), startswith(),          *)
(* endswith() and `in` are computed character by character.  Paths follow  *)
(* posixpath (the separator is "/").  Time is an integer count of seconds. *)
(***************************************************************************)
EXTENDS Integers, Sequences, FiniteSets, TLC

(***************************************************************************)
(* Bounds of the model.                                                    *)
(***************************************************************************)
\* the clock runs from 0 to MaxTime, in steps of TickStep seconds
MaxTime == 80
TickStep == 10
\* at most MaxChanges changes are accepted in one session
MaxChanges == 3
\* a quiet threshold given with --delay, shorter than the default of 60
ShortDelay == 20

(***************************************************************************)
(* Python str operations.                                                  *)
(***************************************************************************)
\* the upper-case ASCII letters and their lower-case forms
UpperToLower ==
    ("A" :> "a") @@ ("B" :> "b") @@ ("C" :> "c") @@ ("D" :> "d") @@ ("E" :> "e") @@
    ("F" :> "f") @@ ("G" :> "g") @@ ("H" :> "h") @@ ("I" :> "i") @@ ("J" :> "j") @@
    ("K" :> "k") @@ ("L" :> "l") @@ ("M" :> "m") @@ ("N" :> "n") @@ ("O" :> "o") @@
    ("P" :> "p") @@ ("Q" :> "q") @@ ("R" :> "r") @@ ("S" :> "s") @@ ("T" :> "t") @@
    ("U" :> "u") @@ ("V" :> "v") @@ ("W" :> "w") @@ ("X" :> "x") @@ ("Y" :> "y") @@
    ("Z" :> "z")

\* str.lower() on one character
LowerChar(c) == IF c \in DOMAIN UpperToLower THEN UpperToLower[c] ELSE c

\* str.lower()
Lower(s) == [i \in 1..Len(s) |-> LowerChar(s[i])]

\* s.startswith(p)
StartsWith(s, p) == Len(p) <= Len(s) /\ SubSeq(s, 1, Len(p)) = p

\* s.endswith(p)
EndsWith(s, p) == Len(p) <= Len(s) /\ SubSeq(s, Len(s) - Len(p) + 1, Len(s)) = p

\* p in s
Contains(s, p) ==
    \E i \in 1..(Len(s) + 1) :
        i + Len(p) - 1 <= Len(s) /\ SubSeq(s, i, i + Len(p) - 1) = p

\* s[1:]
Tail1(s) == IF Len(s) = 0 THEN <<>> ELSE SubSeq(s, 2, Len(s))

\* whitespace removed by str.strip()
IsSpace(c) == c \in {" ", "\t", "\n", "\r"}

RECURSIVE LStrip(_)
LStrip(s) == IF Len(s) > 0 /\ IsSpace(s[1]) THEN LStrip(Tail(s)) ELSE s

RECURSIVE RStrip(_)
RStrip(s) ==
    IF Len(s) > 0 /\ IsSpace(s[Len(s)]) THEN RStrip(SubSeq(s, 1, Len(s) - 1)) ELSE s

\* str.strip()
Strip(s) == RStrip(LStrip(s))

(***************************************************************************)
(* posixpath operations.                                                   *)
(***************************************************************************)
\* p.rfind("/") + 1: the index (0-based) just after the last "/", 0 if none
RECURSIVE RFindFrom(_, _)
RFindFrom(p, i) == IF i = 0 \/ p[i] = "/" THEN i ELSE RFindFrom(p, i - 1)

RFindSlash(p) == RFindFrom(p, Len(p))

AllSlashes(s) == \A i \in 1..Len(s) : s[i] = "/"

RECURSIVE RStripSlash(_)
RStripSlash(s) ==
    IF Len(s) > 0 /\ s[Len(s)] = "/" THEN RStripSlash(SubSeq(s, 1, Len(s) - 1)) ELSE s

\* os.path.basename
basename(p) == SubSeq(p, RFindSlash(p) + 1, Len(p))

\* os.path.dirname
dirname(p) ==
    LET head == SubSeq(p, 1, RFindSlash(p))
    IN  IF Len(head) > 0 /\ ~AllSlashes(head) THEN RStripSlash(head) ELSE head

\* p.split("/") : the components between the separators
\* p.find("/", i) + 1: the index of the first "/" at or after i, 0 if none
RECURSIVE FindFrom(_, _)
FindFrom(p, i) == IF i > Len(p) THEN 0 ELSE IF p[i] = "/" THEN i ELSE FindFrom(p, i + 1)

RECURSIVE SplitSlash(_)
SplitSlash(p) ==
    LET i == FindFrom(p, 1)
    IN  IF i = 0 THEN <<p>>
        ELSE <<SubSeq(p, 1, i - 1)>> \o SplitSlash(SubSeq(p, i + 1, Len(p)))

\* the loop of normpath over the components
RECURSIVE NormComps(_, _, _)
NormComps(comps, new_comps, initial_slashes) ==
    IF comps = <<>> THEN new_comps
    ELSE LET comp == Head(comps)
             n == Len(new_comps)
         IN  IF comp = <<>> \/ comp = <<".">>
             THEN NormComps(Tail(comps), new_comps, initial_slashes)
             ELSE IF comp # <<".", ".">>
                     \/ (initial_slashes = 0 /\ n = 0)
                     \/ (n > 0 /\ new_comps[n] = <<".", ".">>)
             THEN NormComps(Tail(comps), Append(new_comps, comp), initial_slashes)
             ELSE IF n > 0
             THEN NormComps(Tail(comps), SubSeq(new_comps, 1, n - 1), initial_slashes)
             ELSE NormComps(Tail(comps), new_comps, initial_slashes)

\* "/".join(comps)
RECURSIVE JoinSlash(_)
JoinSlash(comps) ==
    IF comps = <<>> THEN <<>>
    ELSE IF Len(comps) = 1 THEN comps[1]
    ELSE comps[1] \o <<"/">> \o JoinSlash(Tail(comps))

\* os.path.normpath
normpath(path) ==
    IF path = <<>> THEN <<".">>
    ELSE LET initial_slashes ==
                 IF ~StartsWith(path, <<"/">>) THEN 0
                 ELSE IF StartsWith(path, <<"/", "/">>) /\ ~StartsWith(path, <<"/", "/", "/">>)
                 THEN 2 ELSE 1
             joined == JoinSlash(NormComps(SplitSlash(path), <<>>, initial_slashes))
             res == [i \in 1..initial_slashes |-> "/"] \o joined
         IN  IF res = <<>> THEN <<".">> ELSE res

(***************************************************************************)
(* Module-level data of the two programs.                                  *)
(***************************************************************************)
\* cascade_monitor.DELAY, and settings.default_delay of vibe_monitor.DEFAULT_CONFIG
DELAY == 60

\* cascade_monitor.EXCLUDED_FILES
EXCLUDED_FILES ==
    <<<<"d","e","b","u","g",".","l","o","g">>,
      <<"w","c","-","i","m","a","g","e","-","r","e","g","e","n","e","r","a","t","i","o","n","-","2","0","2","5","-","0","3","-","1","1","-","2","d","2","3","9","1","8","e","a","a","6","b","f","3","9","9","f","c","1","a","4","7","3","4","d","3","e","7","3","c","7","1",".","l","o","g">>>>

\* cascade_monitor.EXCLUDED_FOLDERS
EXCLUDED_FOLDERS ==
    <<<<"w","p","-","c","o","n","t","e","n","t","/","u","p","l","o","a","d","s">>,
      <<"w","p","-","c","o","n","t","e","n","t","/","d","e","b","u","g","-","l","o","g","s">>,
      <<"w","p","-","c","o","n","t","e","n","t","/","u","p","l","o","a","d","s","/","b","e","t","h","e","m","e","/","c","s","s">>,
      <<"w","p","-","c","o","n","t","e","n","t","/","p","l","u","g","i","n","s","/","a","d","m","i","n","-","c","o","l","u","m","n","s","-","p","r","o">>,
      <<"w","p","-","c","o","n","t","e","n","t","/","p","l","u","g","i","n","s","/","a","u","t","o","l","o","g","i","n","-","l","i","n","k","s">>,
      <<"w","p","-","c","o","n","t","e","n","t","/","p","l","u","g","i","n","s","/","s","v","g","-","s","u","p","p","o","r","t">>,
      <<"w","p","-","c","o","n","t","e","n","t","/","p","l","u","g","i","n","s","/","a","r","y","o","-","a","c","t","i","v","i","t","y","-","l","o","g">>>>

\* the keys of cascade_monitor.SOUND_FILES
CASCADE_SOUND_FILES == {"jobs-done", "dolphin", "wow"}

\* vibe_monitor.DEFAULT_CONFIG; sound_files is the set of its keys (each key
\* names its own file), and the volume plays no part in the model
DEFAULT_CONFIG ==
    [excluded_files |->
        <<<<"d","e","b","u","g",".","l","o","g">>,
          <<".","D","S","_","S","t","o","r","e">>,
          <<"T","h","u","m","b","s",".","d","b">>,
          <<"*",".","t","m","p">>,
          <<"*",".","t","e","m","p">>,
          <<"*",".","s","w","p">>,
          <<"*",".","l","o","c","k">>>>,
     excluded_folders |->
        <<<<"n","o","d","e","_","m","o","d","u","l","e","s">>,
          <<".","g","i","t">>,
          <<"_","_","p","y","c","a","c","h","e","_","_">>,
          <<"l","o","g","s">>,
          <<"t","m","p">>,
          <<"t","e","m","p">>,
          <<"c","a","c","h","e">>,
          <<"d","i","s","t">>,
          <<"b","u","i","l","d">>>>,
     sound_files |-> {"jobs-done", "dolphin", "wow"},
     default_sound |-> "jobs-done",
     default_delay |-> DELAY]

\* a config.json a user may have written: one sound, and a default_sound
\* that sound_files does not list
USER_CONFIG ==
    [DEFAULT_CONFIG EXCEPT !.sound_files = {"dolphin"}]

\* load_config(): the parsed config.json, or DEFAULT_CONFIG
Configs == {DEFAULT_CONFIG, USER_CONFIG}

DEFAULT_EXCLUDED_FILES(CONFIG) == CONFIG.excluded_files
DEFAULT_EXCLUDED_FOLDERS(CONFIG) == CONFIG.excluded_folders
DEFAULT_DELAY(CONFIG) == CONFIG.default_delay

\* Python's None for an optional argument is the empty tuple, a given value v
\* is <<v>>
None == <<>>
Some(v) == <<v>>

(***************************************************************************)
(* main(): the exclusion lists and the delay handed to the tracker.        *)
(***************************************************************************)
\* [line.strip() for line in f if line.strip() and not line.strip().startswith('#')]
RECURSIVE ReadRules(_)
ReadRules(f) ==
    IF f = <<>> THEN <<>>
    ELSE LET line == Head(f)
         IN  IF Strip(line) # <<>> /\ ~StartsWith(Strip(line), <<"#">>)
             THEN <<Strip(line)>> \o ReadRules(Tail(f))
             ELSE ReadRules(Tail(f))

\* actual_delay = delay if delay is not None else DEFAULT_DELAY
actual_delay(delay, CONFIG) == IF delay # None THEN delay[1] ELSE DEFAULT_DELAY(CONFIG)

\* excluded_files of main: the default list, or the rules of the file given
\* with --exclude-file (exclude_file is None or Some(<the file's lines>))
main_excluded_files(exclude_file, CONFIG) ==
    IF exclude_file # None THEN ReadRules(exclude_file[1]) ELSE DEFAULT_EXCLUDED_FILES(CONFIG)

\* excluded_folders of main, likewise for --exclude-dir
main_excluded_folders(exclude_dir, CONFIG) ==
    IF exclude_dir # None THEN ReadRules(exclude_dir[1]) ELSE DEFAULT_EXCLUDED_FOLDERS(CONFIG)

\* FileChangeHandler.__init__: self.excluded_files = excluded_files or DEFAULT_EXCLUDED_FILES
\* (an empty list is false in Python)
init_excluded_files(excluded_files, CONFIG) ==
    IF excluded_files # <<>> THEN excluded_files ELSE DEFAULT_EXCLUDED_FILES(CONFIG)

\* FileChangeHandler.__init__: self.excluded_folders = excluded_folders or DEFAULT_EXCLUDED_FOLDERS
init_excluded_folders(excluded_folders, CONFIG) ==
    IF excluded_folders # <<>> THEN excluded_folders ELSE DEFAULT_EXCLUDED_FOLDERS(CONFIG)

(***************************************************************************)
(* FileChangeHandler.on_modified: the exclusion checks.                    *)
(***************************************************************************)
\* a slip: the rule is not lowercased
FolderRuleMatches_rule_as_written(file_dir_normalized, excluded_folder) ==
    \E excluded_folder_normalized \in {normpath(excluded_folder)} :
        \/ StartsWith(file_dir_normalized, excluded_folder_normalized)
        \/ Contains(file_dir_normalized, excluded_folder_normalized)

\* the test of one excluded-folder rule against the normalized directory
\* (\E x \in {v} : ... names the value v, computed once)
FolderRuleMatches(file_dir_normalized, excluded_folder) ==
    \E excluded_folder_normalized \in {Lower(normpath(excluded_folder))} :
        \/ StartsWith(file_dir_normalized, excluded_folder_normalized)
        \/ Contains(file_dir_normalized, excluded_folder_normalized)

\* for excluded_folder in self.excluded_folders: ... return
\* (the loop from the i-th rule on; TRUE when it returns)
RECURSIVE FolderLoopFrom(_, _, _)
FolderLoopFrom(file_dir_normalized, excluded_folders, i) ==
    IF i > Len(excluded_folders) THEN FALSE
    ELSE IF FolderRuleMatches(file_dir_normalized, excluded_folders[i]) THEN TRUE
    ELSE FolderLoopFrom(file_dir_normalized, excluded_folders, i + 1)

FolderLoop(file_dir_normalized, excluded_folders) ==
    FolderLoopFrom(file_dir_normalized, excluded_folders, 1)

\* a slip: the substring test of cascade_monitor in place of the pattern test
FilePatternMatches_substring(file_name, excluded_pattern) ==
    Contains(file_name, excluded_pattern)

\* vibe_monitor: the test of one excluded-file pattern against the file name
FilePatternMatches(file_name, excluded_pattern) ==
    IF StartsWith(excluded_pattern, <<"*">>) /\ EndsWith(file_name, Tail1(excluded_pattern))
    THEN TRUE
    ELSE excluded_pattern = file_name

\* vibe_monitor: for excluded_pattern in self.excluded_files: ... return
RECURSIVE FileLoopFrom(_, _, _)
FileLoopFrom(file_name, excluded_files, i) ==
    IF i > Len(excluded_files) THEN FALSE
    ELSE IF FilePatternMatches(file_name, excluded_files[i]) THEN TRUE
    ELSE FileLoopFrom(file_name, excluded_files, i + 1)

FileLoop(file_name, excluded_files) == FileLoopFrom(file_name, excluded_files, 1)

\* cascade_monitor: any(excluded in file_name for excluded in EXCLUDED_FILES)
RECURSIVE AnyInFrom(_, _, _)
AnyInFrom(file_name, excluded_files, i) ==
    IF i > Len(excluded_files) THEN FALSE
    ELSE IF Contains(file_name, excluded_files[i]) THEN TRUE
    ELSE AnyInFrom(file_name, excluded_files, i + 1)

AnyIn(file_name, excluded_files) == AnyInFrom(file_name, excluded_files, 1)

\* The return point on_modified takes for an event: "directory" (the event is
\* a directory event), "folder" (return in the folder loop), "file" (return
\* in the file check) or "accepted" (the change is recorded).
file_event_outcome(program, file_path, excluded_files, excluded_folders) ==
    LET file_dir == dirname(file_path)
    IN  IF \E file_dir_normalized \in {Lower(normpath(file_dir))} :
               FolderLoop(file_dir_normalized, excluded_folders)
        THEN "folder"
        ELSE IF \E file_name \in {basename(file_path)} :
                   \/ program = "vibe" /\ FileLoop(file_name, excluded_files)
                   \/ program = "cascade" /\ AnyIn(file_name, excluded_files)
        THEN "file"
        ELSE "accepted"

\* a slip: the test of event.is_directory is left out
on_modified_outcome_no_dir_test(program, event, excluded_files, excluded_folders) ==
    file_event_outcome(program, event.src_path, excluded_files, excluded_folders)

on_modified_outcome(program, event, excluded_files, excluded_folders) ==
    IF event.is_directory THEN "directory"
    ELSE file_event_outcome(program, event.src_path, excluded_files, excluded_folders)

(***************************************************************************)
(* FileChangeHandler.check_completion and play_system_sound.               *)
(***************************************************************************)
\* a slip: the elapsed time is taken from the epoch, not from the last change
time_since_epoch(current_time, lc) == current_time

\* time_since_last_change = current_time - self.last_change
time_since_last_change(current_time, lc) == current_time - lc

\* a slip: the latch is not tested
alert_condition_no_latch(alerted, since, threshold) == since >= threshold

\* a slip: > for >=
alert_condition_strict(alerted, since, threshold) == ~alerted /\ since > threshold

\* if not self.has_alerted and time_since_last_change >= self.delay
alert_condition(alerted, since, threshold) == ~alerted /\ since >= threshold

\* sound_file of play_system_sound: Some(<key whose file is used>), or None
\* when neither the key nor the default sound is in SOUND_FILES
sound_file(program, key, CONFIG) ==
    IF program = "cascade"
    THEN IF key \in CASCADE_SOUND_FILES THEN Some(key) ELSE Some("jobs-done")
    ELSE IF key \in CONFIG.sound_files THEN Some(key)
    ELSE IF CONFIG.default_sound \in CONFIG.sound_files THEN Some(CONFIG.default_sound)
    ELSE None

\* The ways play_system_sound can end: os.path.exists(None) raises TypeError
\* outside the try block; otherwise the file is missing (return), the
\* playback backend raises (caught) or the sound is played to its end.
PlayResults(file) ==
    IF file = None THEN {"raised"} ELSE {"missing", "error", "played"}

(***************************************************************************)
(* Inputs: the command line, config.json and the file-system events.       *)
(***************************************************************************)
Event(path, is_dir) == [src_path |-> path, is_directory |-> is_dir]

P_src == <<"/","p","r","o","j","e","c","t","/","s","r","c">>
P_src_app == <<"/","p","r","o","j","e","c","t","/","s","r","c","/","a","p","p",".","j","s">>
P_node_modules_foo == <<"/","p","r","o","j","e","c","t","/","n","o","d","e","_","m","o","d","u","l","e","s","/","f","o","o",".","j","s">>
P_debug_log == <<"/","p","r","o","j","e","c","t","/","d","e","b","u","g",".","l","o","g">>
P_uploads == <<"/","s","i","t","e","/","W","P","-","C","o","n","t","e","n","t","/","U","p","l","o","a","d","s","/","a",".","p","n","g">>

\* the events delivered in a watch session: a directory event, a file that
\* both programs accept, and a file that both programs exclude
SessionEvents ==
    { Event(P_src, TRUE), Event(P_src_app, FALSE), Event(P_debug_log, FALSE) }

\* --delay: absent, 0 or ShortDelay
DelayArgs == {None, Some(0), Some(ShortDelay)}

\* the arguments of vibe_monitor.main and of cascade_monitor.main
Args(program, watch_exists, key, d, exclude_file, exclude_dir, CONFIG) ==
    [program |-> program, watch_exists |-> watch_exists, sound_key |-> key, delay |-> d,
     exclude_file |-> exclude_file, exclude_dir |-> exclude_dir, CONFIG |-> CONFIG]

SessionInputs ==
    { Args("vibe", TRUE, "jobs-done", d, None, None, DEFAULT_CONFIG) : d \in DelayArgs }
    \cup
    { Args("vibe", TRUE, k, Some(ShortDelay), None, None, USER_CONFIG) :
         k \in {"dolphin", "jobs-done"} }
    \cup
    { Args("vibe", FALSE, "wow", None, None, None, DEFAULT_CONFIG),
      Args("cascade", TRUE, "wow", None, None, None, DEFAULT_CONFIG),
      Args("cascade", FALSE, "jobs-done", None, None, None, DEFAULT_CONFIG) }

(***************************************************************************)
(* Inputs of the sessions that exercise the exclusion rules.               *)
(***************************************************************************)
\* paths, file names, rules and lines of override files
P_NODE_MODULES_FOO == <<"/","P","R","O","J","E","C","T","/","N","O","D","E","_","M","O","D","U","L","E","S","/","F","O","O",".","J","S">>
P_Node_Modules_foo == <<"/","p","r","o","j","e","c","t","/","N","o","d","e","_","M","o","d","u","l","e","s","/","F","o","o",".","j","s">>
P_readme == <<"/","p","r","o","j","e","c","t","/","s","r","c","/","r","e","a","d","m","e",".","m","d">>
P_scratch_tmp == <<"/","p","r","o","j","e","c","t","/","s","r","c","/","s","c","r","a","t","c","h",".","t","m","p">>
P_scratch_tmp_bak == <<"/","p","r","o","j","e","c","t","/","s","r","c","/","s","c","r","a","t","c","h",".","t","m","p",".","b","a","k">>
P_mydebug_log == <<"/","p","r","o","j","e","c","t","/","s","r","c","/","m","y","d","e","b","u","g",".","l","o","g">>
P_DEBUG_LOG == <<"/","p","r","o","j","e","c","t","/","D","E","B","U","G",".","L","O","G">>
P_v1_2_app == <<"/","p","r","o","j","e","c","t","/","v","1",".","2","/","a","p","p",".","j","s">>
P_a_star_tmp == <<"/","p","r","o","j","e","c","t","/","s","r","c","/","a","*",".","t","m","p">>
R_empty == <<>>
R_a_star_tmp == <<"a","*",".","t","m","p">>
P_catalogs == <<"/","p","r","o","j","e","c","t","/","c","a","t","a","l","o","g","s","/","x",".","p","y">>
N_debug_log == <<"d","e","b","u","g",".","l","o","g">>
N_readme == <<"r","e","a","d","m","e",".","m","d">>
N_scratch_tmp == <<"s","c","r","a","t","c","h",".","t","m","p">>
N_scratch_tmp_bak == <<"s","c","r","a","t","c","h",".","t","m","p",".","b","a","k">>
N_mydebug_log == <<"m","y","d","e","b","u","g",".","l","o","g">>
R_node_modules == <<"n","o","d","e","_","m","o","d","u","l","e","s">>
R_NODE_MODULES == <<"N","O","D","E","_","M","O","D","U","L","E","S">>
R_Node_Modules == <<"N","o","d","e","_","M","o","d","u","l","e","s">>
R_debug_log == <<"d","e","b","u","g",".","l","o","g">>
R_star_tmp == <<"*",".","t","m","p">>
L_comment == <<"#"," ","m","y"," ","r","u","l","e","s","\n">>
L_blank == <<"\n">>
L_spaces == <<" "," "," ","\n">>
L_indented_comment == <<" "," ","#","t","m","p","\n">>
L_NODE_MODULES == <<" "," ","N","O","D","E","_","M","O","D","U","L","E","S"," ","\n">>
L_Node_Modules == <<"N","o","d","e","_","M","o","d","u","l","e","s","/","\n">>
L_node_modules == <<"n","o","d","e","_","m","o","d","u","l","e","s">>
L_debug_log == <<"d","e","b","u","g",".","l","o","g","\n">>
L_star_tmp == <<" ","*",".","t","m","p","\n">>

FilterEvents ==
    { Event(P_src, TRUE), Event(P_src_app, FALSE), Event(P_node_modules_foo, FALSE),
      Event(P_NODE_MODULES_FOO, FALSE), Event(P_Node_Modules_foo, FALSE),
      Event(P_debug_log, FALSE), Event(P_readme, FALSE), Event(P_scratch_tmp, FALSE),
      Event(P_scratch_tmp_bak, FALSE), Event(P_mydebug_log, FALSE),
      Event(P_catalogs, FALSE), Event(P_uploads, FALSE), Event(P_DEBUG_LOG, FALSE),
      Event(P_v1_2_app, FALSE), Event(P_a_star_tmp, FALSE) }

\* files given with --exclude-file, as the sequences of their lines
ExcludeFileArgs ==
    { None,
      Some(<<L_comment, L_debug_log, L_blank, L_star_tmp>>),
      Some(<<L_comment, L_blank>>) }

\* files given with --exclude-dir
ExcludeDirArgs ==
    { None,
      Some(<<L_comment, L_NODE_MODULES, L_spaces>>),
      Some(<<L_Node_Modules>>),
      Some(<<L_node_modules>>),
      Some(<<L_indented_comment, L_spaces>>) }

\* a config.json whose rule lists hold an empty string, and a pattern with a
\* "*" that is not its first character
MALFORMED_CONFIG ==
    [DEFAULT_CONFIG EXCEPT !.excluded_files = <<R_empty, R_a_star_tmp>>,
                           !.excluded_folders = <<R_empty>>]

FilterInputs ==
    { Args("vibe", TRUE, "jobs-done", Some(0), None, None, MALFORMED_CONFIG) }
    \cup
    { Args("vibe", TRUE, "jobs-done", Some(0), f, d, DEFAULT_CONFIG) :
         f \in ExcludeFileArgs, d \in ExcludeDirArgs }
    \cup
    { Args("cascade", TRUE, "jobs-done", None, None, None, DEFAULT_CONFIG) }

(***************************************************************************)
(* State.                                                                  *)
(***************************************************************************)
VARIABLES
    inputs,           \* the arguments of main and the loaded CONFIG
    now,              \* time.time()
    main_pc,          \* where main is: "start", "exit1", "loop", "crashed", "done"
    last_change,      \* FileChangeHandler.last_change
    has_alerted,      \* FileChangeHandler.has_alerted
    sound_key,        \* FileChangeHandler.sound_key
    excluded_files,   \* FileChangeHandler.excluded_files (cascade: EXCLUDED_FILES)
    excluded_folders, \* FileChangeHandler.excluded_folders (cascade: EXCLUDED_FOLDERS)
    delay,            \* FileChangeHandler.delay (cascade: DELAY)
    observer,         \* main's observer: "none", "started" (watching) or "stopped"
    \* the two threads of a session, when their statements interleave
    poll_pc,          \* the poll loop: "sleep", or the line of check_completion it is at
    current_time,     \* check_completion's local current_time
    since,            \* check_completion's local time_since_last_change
    play_result,      \* how the play_system_sound call in progress will end
    obs_pc,           \* the observer thread: "idle", or the line of on_modified it is at
    playing,          \* the number of sounds the mixer is playing
    \* a cascade_monitor.FileChangeHandler given the same calls as the handler
    c_last_change,    \* its last_change
    c_has_alerted,    \* its has_alerted
    c_n_fired,        \* the number of its play_system_sound calls
    \* history, kept for the properties
    event,            \* the event of the latest on_modified call
    outcome,          \* the return point that call took
    n_changes,        \* number of accepted changes
    last_accept,      \* time of the latest accepted change (construction time if none)
    gaps_ok,          \* every gap between successive accepted changes was below delay
    n_fired,          \* number of calls of play_system_sound
    last_fire,        \* the latest call: its sound key, and n_changes then
    poll              \* how the latest check_completion call went: "noop", or the
                      \* result of the play_system_sound it called; "" if there was
                      \* no call since the latest on_modified call

handler == <<last_change, has_alerted, sound_key, excluded_files, excluded_folders, delay>>
on_modified_history == <<event, outcome, n_changes, last_accept, gaps_ok>>
check_history == <<n_fired, last_fire, poll>>
cascade_twin == <<c_last_change, c_has_alerted, c_n_fired>>
threads == <<poll_pc, current_time, since, play_result, obs_pc>>
vars == <<inputs, now, main_pc, observer, playing, handler, cascade_twin, threads, on_modified_history, check_history>>

NoEvent == Event(<<>>, FALSE)
NoFire == [key |-> "", changes |-> 0]

\* the process has started and main has not run yet
InitWith(I) ==
    /\ inputs \in I
    /\ now = 0
    /\ main_pc = "start" /\ observer = "none"
    /\ last_change = 0 /\ has_alerted = FALSE /\ sound_key = ""
    /\ excluded_files = <<>> /\ excluded_folders = <<>> /\ delay = 0
    /\ poll_pc = "sleep" /\ current_time = 0 /\ since = 0 /\ play_result = ""
    /\ obs_pc = "idle" /\ playing = 0
    /\ c_last_change = 0 /\ c_has_alerted = FALSE /\ c_n_fired = 0
    /\ event = NoEvent /\ outcome = ""
    /\ n_changes = 0 /\ last_accept = 0 /\ gaps_ok = TRUE
    /\ n_fired = 0 /\ last_fire = NoFire /\ poll = ""

Init == InitWith(SessionInputs)

(***************************************************************************)
(* Actions.                                                                *)
(***************************************************************************)
\* time passes (main is started at time 0 or one step later)
Tick ==
    /\ main_pc = "loop" \/ (main_pc = "start" /\ now = 0)
    /\ now + TickStep <= MaxTime
    /\ now' = now + TickStep
    /\ UNCHANGED <<inputs, cascade_twin, playing, observer, main_pc, handler, threads, on_modified_history, check_history>>

\* a slip: the tracker is constructed with the latch set
init_tracker_alerted(t) == [last_change |-> t, has_alerted |-> TRUE]

\* FileChangeHandler.__init__: self.last_change = time.time();
\* self.has_alerted = False
init_tracker(t) == [last_change |-> t, has_alerted |-> FALSE]

\* main up to the poll loop: exit 1 if the watch path does not exist,
\* otherwise build the handler and start the observer
main_start ==
    /\ main_pc = "start"
    /\ IF ~inputs.watch_exists
       THEN /\ main_pc' = "exit1"
            /\ UNCHANGED <<handler, last_accept, observer>>
       ELSE /\ main_pc' = "loop"
            /\ observer' = "started"
            /\ last_change' = init_tracker(now).last_change
            /\ last_accept' = now
            /\ has_alerted' = init_tracker(now).has_alerted
            /\ sound_key' = inputs.sound_key
            /\ IF inputs.program = "cascade"
               THEN /\ excluded_files' = EXCLUDED_FILES
                    /\ excluded_folders' = EXCLUDED_FOLDERS
                    /\ delay' = DELAY
               ELSE /\ excluded_files' =
                         init_excluded_files(
                             main_excluded_files(inputs.exclude_file, inputs.CONFIG),
                             inputs.CONFIG)
                    /\ excluded_folders' =
                         init_excluded_folders(
                             main_excluded_folders(inputs.exclude_dir, inputs.CONFIG),
                             inputs.CONFIG)
                    /\ delay' = actual_delay(inputs.delay, inputs.CONFIG)
    /\ UNCHANGED <<inputs, cascade_twin, playing, now, threads, event, outcome, n_changes, gaps_ok,
                   check_history>>

\* a slip: the timestamp is reset and the latch is left as it is
record_change_keeps_latch(t) == [last_change |-> t, has_alerted |-> has_alerted]

\* the two assignments of an accepted change
\* self.last_change = time.time(); self.has_alerted = False
record_change(t) == [last_change |-> t, has_alerted |-> FALSE]

\* FileChangeHandler.on_modified(e), called by the observer
on_modified(e) ==
    /\ main_pc = "loop"
    /\ n_changes < MaxChanges
    /\ event' = e
    /\ \E out \in {on_modified_outcome(inputs.program, e, excluded_files, excluded_folders)} :
           /\ outcome' = out
           /\ IF out = "accepted"
              THEN /\ last_change' = record_change(now).last_change
                   /\ has_alerted' = record_change(now).has_alerted
                   /\ n_changes' = n_changes + 1
                   /\ gaps_ok' = (gaps_ok /\ (n_changes = 0 \/ now - last_accept < delay))
                   /\ last_accept' = now
              ELSE UNCHANGED <<last_change, has_alerted, n_changes, gaps_ok, last_accept>>
    /\ poll' = ""
    /\ UNCHANGED <<inputs, cascade_twin, playing, observer, now, main_pc, sound_key, excluded_files, excluded_folders,
                   delay, threads, n_fired, last_fire>>

\* FileChangeHandler.check_completion(), called by the poll loop of main,
\* with the call of play_system_sound it makes
check_completion ==
    /\ main_pc = "loop"
    /\ \E elapsed \in {time_since_last_change(now, last_change)} :
           IF alert_condition(has_alerted, elapsed, delay)
           THEN \E result \in PlayResults(sound_file(inputs.program, sound_key, inputs.CONFIG)) :
                  /\ n_fired' = n_fired + 1
                  /\ last_fire' = [key |-> sound_key, changes |-> n_changes]
                  /\ poll' = result
                  /\ IF result = "raised"
                     THEN /\ main_pc' = "crashed"
                          /\ UNCHANGED has_alerted
                     ELSE /\ has_alerted' = TRUE
                          /\ UNCHANGED main_pc
           ELSE /\ poll' = "noop"
                /\ UNCHANGED <<n_fired, last_fire, has_alerted, main_pc>>
    /\ UNCHANGED <<inputs, cascade_twin, playing, observer, now, last_change, sound_key, excluded_files, excluded_folders,
                   delay, threads, on_modified_history>>

\* Ctrl+C: except KeyboardInterrupt: observer.stop(); then observer.join()
KeyboardInterrupt ==
    /\ main_pc = "loop"
    /\ main_pc' = "done"
    /\ observer' = "stopped"
    /\ UNCHANGED <<inputs, cascade_twin, playing, now, handler, threads, on_modified_history, check_history>>

Next ==
    \/ Tick
    \/ main_start
    \/ \E e \in SessionEvents : on_modified(e)
    \/ check_completion
    \/ KeyboardInterrupt

Spec == Init /\ [][Next]_vars

\* The sessions that exercise the exclusion rules: more rule sets and more
\* events, observed for one step of the clock.
InitFilter == InitWith(FilterInputs)

FilterTick == Tick /\ now = 0

\* the events are delivered until the first change is accepted
FilterEvent(e) == n_changes = 0 /\ on_modified(e)

NextFilter ==
    \/ FilterTick
    \/ main_start
    \/ \E e \in FilterEvents : FilterEvent(e)
    \/ check_completion

SpecFilter == InitFilter /\ [][NextFilter]_vars

(***************************************************************************)
(* The watch session with its two threads: the observer thread runs        *)
(* on_modified while the main thread runs the poll loop, and their         *)
(* statements interleave (no lock is taken by either).                     *)
(***************************************************************************)
\* the arguments of the sessions whose threads are interleaved
ThreadInputs ==
    { Args("vibe", TRUE, "jobs-done", Some(ShortDelay), None, None, DEFAULT_CONFIG) }

\* the events of these sessions: a file that is accepted, one that is excluded
ThreadEvents == { Event(P_src_app, FALSE), Event(P_debug_log, FALSE) }

InitThreads == InitWith(ThreadInputs)

\* these sessions are observed for two quiet thresholds and one step
ThreadTick == Tick /\ now' <= 2 * ShortDelay + TickStep

\* observer thread: on_modified(e) up to and including
\* self.last_change = time.time()
om_deliver(e) ==
    /\ main_pc = "loop" /\ obs_pc = "idle"
    /\ n_changes < MaxChanges
    /\ event' = e
    /\ \E out \in {on_modified_outcome(inputs.program, e, excluded_files, excluded_folders)} :
           /\ outcome' = out
           /\ IF out = "accepted"
              THEN /\ last_change' = record_change(now).last_change
                   /\ gaps_ok' = (gaps_ok /\ (n_changes = 0 \/ now - last_accept < delay))
                   /\ last_accept' = now
                   /\ obs_pc' = "128"
              ELSE UNCHANGED <<last_change, gaps_ok, last_accept, obs_pc>>
    /\ UNCHANGED <<inputs, cascade_twin, playing, observer, now, main_pc, has_alerted, sound_key, excluded_files,
                   excluded_folders, delay, poll_pc, current_time, since, play_result,
                   n_changes, check_history>>

\* observer thread: self.has_alerted = False, which ends the accepted call
om_clear ==
    /\ obs_pc = "128"
    /\ has_alerted' = record_change(last_change).has_alerted
    /\ n_changes' = n_changes + 1
    /\ obs_pc' = "idle"
    /\ UNCHANGED <<inputs, cascade_twin, playing, observer, now, main_pc, last_change, sound_key, excluded_files,
                   excluded_folders, delay, poll_pc, current_time, since, play_result,
                   event, outcome, last_accept, gaps_ok, check_history>>

\* main thread: time.sleep(1) has returned; current_time = time.time()
cc_time ==
    /\ main_pc = "loop" /\ poll_pc = "sleep"
    /\ current_time' = now
    /\ poll_pc' = "132"
    /\ UNCHANGED <<inputs, cascade_twin, playing, observer, now, main_pc, handler, since, play_result, obs_pc,
                   on_modified_history, check_history>>

\* main thread: time_since_last_change = current_time - self.last_change
cc_elapsed ==
    /\ main_pc = "loop" /\ poll_pc = "132"
    /\ since' = time_since_last_change(current_time, last_change)
    /\ poll_pc' = "134"
    /\ UNCHANGED <<inputs, cascade_twin, playing, observer, now, main_pc, handler, current_time, play_result, obs_pc,
                   on_modified_history, check_history>>

\* main thread: the if of check_completion; when it holds play_system_sound
\* is called, and blocks until the sound has been played
cc_test ==
    /\ main_pc = "loop" /\ poll_pc = "134"
    /\ IF alert_condition(has_alerted, since, delay)
       THEN \E result \in PlayResults(sound_file(inputs.program, sound_key, inputs.CONFIG)) :
              /\ play_result' = result
              /\ playing' = IF result = "played" THEN playing + 1 ELSE playing
              /\ n_fired' = n_fired + 1
              /\ last_fire' = [key |-> sound_key, changes |-> n_changes]
              /\ poll_pc' = "136"
              /\ UNCHANGED <<poll, current_time, since>>
       ELSE /\ poll' = "noop"
            /\ poll_pc' = "sleep"
            /\ current_time' = 0 /\ since' = 0
            /\ UNCHANGED <<n_fired, last_fire, play_result, playing>>
    /\ UNCHANGED <<inputs, cascade_twin, observer, now, main_pc, handler, obs_pc, on_modified_history>>

\* a slip: play_system_sound returns while the sound is still playing
busy_after_wait_no_wait(n) == n

\* the sounds still playing when play_system_sound returns after
\* sound.play(): while pygame.mixer.get_busy(): time.sleep(0.1)
busy_after_wait(n) == 0

\* main thread: play_system_sound returns, or raises out of main
cc_play_end ==
    /\ main_pc = "loop" /\ poll_pc = "136"
    /\ IF play_result = "raised"
       THEN /\ main_pc' = "crashed"
            /\ poll' = play_result
            /\ poll_pc' = "sleep"
       ELSE /\ poll_pc' = "137"
            /\ UNCHANGED <<main_pc, poll>>
    /\ playing' = IF play_result = "played" THEN busy_after_wait(playing) ELSE playing
    /\ UNCHANGED <<inputs, cascade_twin, observer, now, handler, current_time, since, play_result, obs_pc,
                   on_modified_history, n_fired, last_fire>>

\* main thread: self.has_alerted = True, and check_completion returns
cc_latch ==
    /\ main_pc = "loop" /\ poll_pc = "137"
    /\ has_alerted' = TRUE
    /\ poll' = play_result
    /\ poll_pc' = "sleep"
    /\ current_time' = 0 /\ since' = 0 /\ play_result' = ""
    /\ UNCHANGED <<inputs, cascade_twin, playing, observer, now, main_pc, last_change, sound_key, excluded_files,
                   excluded_folders, delay, obs_pc, on_modified_history, n_fired, last_fire>>

NextThreads ==
    \/ ThreadTick
    \/ main_start
    \/ \E e \in ThreadEvents : om_deliver(e)
    \/ om_clear
    \/ cc_time
    \/ cc_elapsed
    \/ cc_test
    \/ cc_play_end
    \/ cc_latch
    \/ KeyboardInterrupt

SpecThreads == InitThreads /\ [][NextThreads]_vars

(***************************************************************************)
(* Properties of the tracker under serial calls (specification Spec).      *)
(***************************************************************************)
\* a step that is a call of check_completion
CheckStep == poll' # "" /\ <<poll, n_fired>>' # <<poll, n_fired>>

\* a step that is a call of on_modified
DeliverStep == poll' = "" /\ now' = now /\ main_pc = "loop" /\ main_pc' = "loop"

\* a step in which play_system_sound is called
FireStep == n_fired' = n_fired + 1

\* a step in which on_modified accepts a change
AcceptStep == n_changes' = n_changes + 1

\* C1: at most one notification per period of inactivity: a notification
\* fires only while the latch is clear, and between two consecutive
\* notifications there is at least one accepted change.
C1_OneAlertPerQuietPeriod ==
    [][FireStep => /\ ~has_alerted
                   /\ (n_fired > 0 => n_changes > last_fire.changes)]_vars

\* a check_completion call made after the latch was set, which did nothing
C1_Witness ==
    /\ has_alerted /\ n_fired = 1 /\ poll = "noop"
    /\ now >= last_accept + delay + TickStep

\* C2: no early fire: a check_completion call at a time less than the quiet
\* threshold after the latest accepted change (or after construction) fires
\* nothing and leaves has_alerted and last_change as they were.
C2_NoEarlyFire ==
    [][(CheckStep /\ now - last_accept < delay)
         => /\ n_fired' = n_fired
            /\ poll' = "noop"
            /\ has_alerted' = has_alerted
            /\ last_change' = last_change]_vars

\* a check_completion call made after an accepted change and before the
\* threshold had elapsed
C2_Witness ==
    /\ poll = "noop" /\ outcome = "accepted" /\ ~has_alerted
    /\ now > last_accept /\ now - last_accept < delay

C9_FailureLatches ==
    poll \in {"missing", "error", "raised"} => (has_alerted /\ main_pc \in {"loop", "done"})

(***************************************************************************)
(* Properties of the session with interleaved threads (SpecThreads).       *)
(***************************************************************************)
\* neither thread is inside a handler
Quiescent == main_pc = "loop" /\ poll_pc = "sleep" /\ obs_pc = "idle"

\* C3: has_alerted is true if and only if no accepted change has occurred
\* since the most recent notification fired (stated for the states in which
\* neither thread is inside a handler, and once a notification has fired).
C3_LatchIffNoChangeSinceAlert ==
    (Quiescent /\ n_fired > 0) => (has_alerted <=> n_changes = last_fire.changes)

(***************************************************************************)
(* Properties of the exclusion rules (specification SpecFilter).           *)
(***************************************************************************)
\* s[i..j) = p for some i: p occurs in s
Occurs(p, s) == \E k \in 0..(Len(s) - Len(p)) : \A j \in 1..Len(p) : s[k + j] = p[j]

\* some excluded-folder rule, normalized and lowercased, occurs in (so also:
\* is a prefix of) the normalized, lowercased directory of the path
DirRuleHit(path, folders) ==
    \E d \in {Lower(normpath(dirname(path)))} :
        \E i \in 1..Len(folders) : Occurs(Lower(normpath(folders[i])), d)

\* vibe_monitor: some pattern is "*" followed by an ending of the name, or is the name
PatternHit(name, patterns) ==
    \E i \in 1..Len(patterns) :
        LET pat == patterns[i]
        IN  \/ /\ Len(pat) >= 1 /\ pat[1] = "*"
               /\ Len(name) >= Len(pat) - 1
               /\ \A j \in 2..Len(pat) : name[Len(name) - Len(pat) + j] = pat[j]
            \/ pat = name

\* cascade_monitor: some excluded name occurs in the name
SubstringHit(name, patterns) == \E i \in 1..Len(patterns) : Occurs(patterns[i], name)

NameRuleHit(program, path, patterns) ==
    IF program = "vibe" THEN PatternHit(basename(path), patterns)
    ELSE SubstringHit(basename(path), patterns)

\* an event on_modified must ignore
Ignorable(e) ==
    \/ e.is_directory
    \/ DirRuleHit(e.src_path, excluded_folders)
    \/ NameRuleHit(inputs.program, e.src_path, excluded_files)

\* C6: frame of ignored events: an on_modified call for a directory event, or
\* for a file whose directory matches an excluded-folder rule or whose name
\* matches an excluded-file pattern, leaves last_change and has_alerted as they
\* were; every other event resets last_change and clears has_alerted.
C6_IgnoredEventsFrame ==
    [][DeliverStep =>
         IF Ignorable(event')
         THEN UNCHANGED <<last_change, has_alerted, n_changes>>
         ELSE last_change' = now /\ ~has_alerted' /\ n_changes' = n_changes + 1]_vars

\* an ignored event of each kind was delivered while the latch was set and
\* after the clock had moved on, and the latch and the timestamp are as before
C6_Witness ==
    /\ has_alerted /\ last_change < now /\ poll = "" /\ n_changes = 0
    /\ outcome = "folder"

\* the mixed-case forms of the rule node_modules
NodeModulesRules == {R_node_modules, R_NODE_MODULES, R_Node_Modules}

\* C7: folder exclusion: a file event is ignored by the folder check exactly
\* when some excluded-folder rule, normalized and lowercased, is a prefix or a
\* substring of the normalized, lowercased directory of the file; with the
\* rule node_modules, /project/node_modules/foo.js is ignored in any letter
\* case of path and rule, and /project/src/app.js is not.
C7_FolderExclusion ==
    (event # NoEvent /\ ~event.is_directory) =>
        /\ (outcome = "folder") <=> DirRuleHit(event.src_path, excluded_folders)
        /\ (/\ event.src_path \in {P_node_modules_foo, P_NODE_MODULES_FOO, P_Node_Modules_foo}
            /\ \E i \in 1..Len(excluded_folders) : excluded_folders[i] \in NodeModulesRules)
              => (outcome = "folder" /\ n_changes = 0)
        /\ (/\ event.src_path = P_src_app
            /\ Len(excluded_folders) = 1 /\ excluded_folders[1] \in NodeModulesRules)
              => outcome # "folder"

\* /project/Node_Modules/Foo.js was ignored by the rule NODE_MODULES
C7_Witness ==
    /\ event.src_path = P_Node_Modules_foo /\ outcome = "folder"
    /\ excluded_folders = <<R_NODE_MODULES>>

\* C8: file exclusion of vibe_monitor: a file event that passes the folder
\* check is ignored exactly when some pattern starts with "*" and the file
\* name ends with the rest of it, or equals the file name; debug.log is
\* ignored by the pattern debug.log, *.tmp matches scratch.tmp, and readme.md,
\* scratch.tmp.bak and mydebug.log (which contains debug.log) are accepted.
C8_FileExclusion ==
    (/\ inputs.program = "vibe" /\ event # NoEvent /\ ~event.is_directory
     /\ ~DirRuleHit(event.src_path, excluded_folders)) =>
        /\ (outcome = "file") <=> PatternHit(basename(event.src_path), excluded_files)
        /\ (/\ event.src_path = P_debug_log
            /\ \E i \in 1..Len(excluded_files) : excluded_files[i] = R_debug_log)
              => (outcome = "file" /\ n_changes = 0)
        /\ (/\ event.src_path = P_scratch_tmp
            /\ \E i \in 1..Len(excluded_files) : excluded_files[i] = R_star_tmp)
              => (outcome = "file" /\ n_changes = 0)
        /\ (excluded_files \in {DEFAULT_CONFIG.excluded_files, <<R_debug_log, R_star_tmp>>})
              => (event.src_path \in {P_readme, P_scratch_tmp_bak, P_mydebug_log}
                    => outcome = "accepted")

\* mydebug.log was accepted, and scratch.tmp ignored, under debug.log and *.tmp
C8_Witness ==
    /\ excluded_files = <<R_debug_log, R_star_tmp>>
    /\ \/ event.src_path = P_mydebug_log /\ outcome = "accepted" /\ n_changes = 1
       \/ event.src_path = P_scratch_tmp /\ outcome = "file" /\ n_changes = 0

\* C10: exclusion overrides replace the defaults: once main has built the
\* tracker, the list it uses for a given override file is exactly the
\* stripped, non-blank, non-comment lines of that file.
C10_OverridesReplaceDefaults ==
    (main_pc = "loop" /\ inputs.program = "vibe") =>
        /\ inputs.exclude_file # None => excluded_files = ReadRules(inputs.exclude_file[1])
        /\ inputs.exclude_dir # None => excluded_folders = ReadRules(inputs.exclude_dir[1])

(***************************************************************************)
(* Properties of main (specification Spec).                                *)
(***************************************************************************)
\* C11: startup failure: when the watch path does not exist main exits with
\* status 1 before a tracker is constructed, a watch is registered or a poll
\* runs, so nothing fires; when it exists the session polls until it is
\* interrupted and then terminates normally (it never ends in another way).
C11_StartupFailure ==
    /\ (~inputs.watch_exists /\ main_pc # "start") =>
           /\ main_pc = "exit1" /\ observer = "none"
           /\ sound_key = "" /\ n_fired = 0 /\ poll = "" /\ event = NoEvent
    /\ inputs.watch_exists =>
           /\ main_pc \in {"start", "loop", "done"}
           /\ main_pc = "done" => observer = "stopped"

(***************************************************************************)
(* Properties of the interleaved threads, continued (SpecThreads).         *)
(***************************************************************************)
\* the step of check_completion that sets the latch
LatchStep == poll_pc = "137" /\ poll_pc' = "sleep"

\* C12: on_modified and check_completion are atomic with respect to each
\* other: check_completion fires only on an elapsed time that is the one of
\* the last_change recorded when it fires, and sets the latch only when no
\* change was recorded since its test.
C12_Atomicity ==
    [][/\ FireStep => since = time_since_last_change(current_time, last_change)
       /\ LatchStep => (n_changes = last_fire.changes /\ obs_pc = "idle")]_vars

\* The session whose poll loop keeps running: it is not interrupted, time
\* passes, the main thread executes its statements (a playback that was
\* started ends), and the observer thread finishes a handler it has begun.
NextThreadsLive ==
    \/ ThreadTick
    \/ main_start
    \/ om_deliver(Event(P_src_app, FALSE))
    \/ om_clear
    \/ cc_time
    \/ cc_elapsed
    \/ cc_test
    \/ cc_play_end
    \/ cc_latch

SpecThreadsLive ==
    /\ InitThreads /\ [][NextThreadsLive]_vars
    /\ WF_vars(ThreadTick) /\ WF_vars(main_start) /\ WF_vars(om_clear)
    /\ WF_vars(cc_time \/ cc_elapsed \/ cc_test \/ cc_play_end \/ cc_latch)

\* C13: no lost activity: after every accepted change (the k-th, recorded
\* early enough for the quiet threshold to elapse within the time observed),
\* either a later change is accepted or a notification eventually fires
\* after that change.
C13_NoLostActivity ==
    \A k \in 1..MaxChanges :
        [](( /\ n_changes = k /\ obs_pc = "idle"
             /\ now + delay <= 2 * ShortDelay + TickStep )
           => <>(n_changes > k \/ (n_fired > 0 /\ last_fire.changes = k)))

(***************************************************************************)
(* Properties of the tracker under serial calls, continued (Spec).         *)
(***************************************************************************)
\* C14: initial state: a newly constructed tracker has has_alerted false and
\* last_change equal to the time of its construction; while no change has
\* been accepted, a check_completion call fires exactly when it is the first
\* one made at least the threshold after construction, and no later poll
\* fires another notification.
C14_InitialState ==
    [][/\ (main_pc = "start" /\ main_pc' = "loop")
            => (~has_alerted' /\ last_change' = now)
       /\ (CheckStep /\ n_changes = 0 /\ n_fired = 0)
            => (FireStep <=> now - last_accept >= delay)
       /\ (CheckStep /\ n_changes = 0 /\ n_fired > 0)
            => n_fired' = n_fired]_vars

\* a session without accepted change and with the default threshold: one
\* notification, and a later poll that fired nothing
C14_Witness ==
    /\ n_changes = 0 /\ delay = DELAY
    /\ n_fired = 1 /\ has_alerted /\ poll = "noop"
    /\ now >= last_change + delay + TickStep

(***************************************************************************)
(* Properties of the exclusion rules, continued (SpecFilter).              *)
(***************************************************************************)
\* C15: exclusion matching is case-insensitive for both kinds of rule: the
\* event that was delivered is ignored exactly when the same event with its
\* path (directory and file name) in lower case is ignored.
C15_CaseInsensitive ==
    (event # NoEvent /\ ~event.is_directory) =>
        ((outcome = "accepted") <=>
           (on_modified_outcome(inputs.program, Event(Lower(event.src_path), FALSE),
                                excluded_files, excluded_folders) = "accepted"))

\* the rules that are not the empty string
NonEmptyRules(rules) == SelectSeq(rules, LAMBDA r : r # R_empty)

\* C16: malformed rules are harmless: the exclusion check completes with an
\* outcome; the outcome is the one the rules without the empty strings give
\* (an empty rule causes no event to be ignored); and when no file pattern
\* starts with "*", a file is ignored by the file check only if a pattern
\* equals its name character by character (a "*" elsewhere is literal).
C16_MalformedRulesHarmless ==
    (event # NoEvent /\ ~event.is_directory) =>
        /\ outcome \in {"folder", "file", "accepted"}
        /\ outcome = on_modified_outcome(inputs.program, event,
                                         NonEmptyRules(excluded_files),
                                         NonEmptyRules(excluded_folders))
        /\ (/\ inputs.program = "vibe" /\ outcome = "file"
            /\ \A i \in 1..Len(excluded_files) : ~StartsWith(excluded_files[i], <<"*">>))
              => \E i \in 1..Len(excluded_files) :
                     excluded_files[i] = basename(event.src_path)

(***************************************************************************)
(* Properties of main, continued (specification Spec).                     *)
(***************************************************************************)
\* C17: watch release on every termination: once the observer was started,
\* a step that ends the session (by Ctrl+C or by an error raised in the poll
\* loop) leaves the observer stopped, and no check_completion call is made
\* after observer.stop().
C17_WatchReleased ==
    [][/\ (main_pc = "loop" /\ main_pc' # "loop") => observer' = "stopped"
       /\ observer = "stopped" => ~CheckStep]_vars

(***************************************************************************)
(* Properties of the interleaved threads, continued (SpecThreads).         *)
(***************************************************************************)
\* C18: no overlapping alerts: at most one sound is playing at any moment,
\* and check_completion is not running its lines before the call of
\* play_system_sound (no call has started) while a sound is playing.
C18_NoOverlappingAlerts ==
    /\ playing <= 1
    /\ poll_pc \in {"132", "134"} => playing = 0

\* the second notification is being played while the observer thread is
\* inside on_modified
C18_Witness ==
    /\ poll_pc = "136" /\ playing = 1 /\ n_fired = 2 /\ obs_pc = "128"

(***************************************************************************)
(* Properties of play_system_sound (specification Spec).                   *)
(***************************************************************************)
\* the keys of SOUND_FILES, and the default sound, of the running program
ConfiguredSounds ==
    IF inputs.program = "cascade" THEN CASCADE_SOUND_FILES ELSE inputs.CONFIG.sound_files

DefaultSound ==
    IF inputs.program = "cascade" THEN "jobs-done" ELSE inputs.CONFIG.default_sound

\* C19: sound fallback: whenever play_system_sound was called, the key it
\* was given resolved to a sound file: to the key's own file when the key is
\* configured, and to the file of the default sound otherwise.
C19_SoundFallback ==
    n_fired > 0 =>
        \E f \in {sound_file(inputs.program, last_fire.key, inputs.CONFIG)} :
            /\ f # None
            /\ f = IF last_fire.key \in ConfiguredSounds
                   THEN Some(last_fire.key) ELSE Some(DefaultSound)

(***************************************************************************)
(* The two trackers side by side: a vibe_monitor.FileChangeHandler with    *)
(* the default threshold and a cascade_monitor.FileChangeHandler are       *)
(* constructed at the same time and given the same accepted changes and    *)
(* the same polls (specification SpecPair).                                *)
(***************************************************************************)
\* cascade_monitor.FileChangeHandler.__init__
cascade_init_tracker(t) == [last_change |-> t, has_alerted |-> FALSE]

\* cascade_monitor on_modified: self.last_change = time.time();
\* self.has_alerted = False
cascade_record_change(t) == [last_change |-> t, has_alerted |-> FALSE]

\* a slip: the threshold must be exceeded
cascade_alert_condition_strict(alerted, elapsed) == ~alerted /\ elapsed > DELAY

\* cascade_monitor check_completion:
\* if not self.has_alerted and time_since_last_change >= DELAY
cascade_alert_condition(alerted, elapsed) == ~alerted /\ elapsed >= DELAY

PairInputs == { Args("vibe", TRUE, "jobs-done", None, None, None, DEFAULT_CONFIG) }

InitPair == InitWith(PairInputs)

\* the pair is observed for two thresholds and two steps
PairTick ==
    /\ now + TickStep <= 2 * DELAY + 2 * TickStep
    /\ now' = now + TickStep
    /\ UNCHANGED <<inputs, main_pc, observer, playing, handler, cascade_twin, threads,
                   on_modified_history, check_history>>

\* both handlers are constructed
PairStart ==
    /\ main_pc = "start"
    /\ main_pc' = "loop"
    /\ last_change' = init_tracker(now).last_change
    /\ has_alerted' = init_tracker(now).has_alerted
    /\ delay' = actual_delay(inputs.delay, inputs.CONFIG)
    /\ sound_key' = inputs.sound_key
    /\ c_last_change' = cascade_init_tracker(now).last_change
    /\ c_has_alerted' = cascade_init_tracker(now).has_alerted
    /\ UNCHANGED <<inputs, now, observer, playing, excluded_files, excluded_folders,
                   c_n_fired, threads, on_modified_history, check_history>>

\* both handlers accept a change
PairChange ==
    /\ main_pc = "loop" /\ n_changes < MaxChanges
    /\ last_change' = record_change(now).last_change
    /\ has_alerted' = record_change(now).has_alerted
    /\ c_last_change' = cascade_record_change(now).last_change
    /\ c_has_alerted' = cascade_record_change(now).has_alerted
    /\ n_changes' = n_changes + 1
    /\ last_accept' = now
    /\ poll' = ""
    /\ UNCHANGED <<inputs, now, main_pc, observer, playing, sound_key, excluded_files,
                   excluded_folders, delay, c_n_fired, threads, event, outcome, gaps_ok,
                   n_fired, last_fire>>

\* check_completion is called on both handlers
PairPoll ==
    /\ main_pc = "loop"
    /\ IF alert_condition(has_alerted, time_since_last_change(now, last_change), delay)
       THEN /\ n_fired' = n_fired + 1
            /\ last_fire' = [key |-> sound_key, changes |-> n_changes]
            /\ has_alerted' = TRUE
            /\ poll' = "played"
       ELSE /\ poll' = "noop"
            /\ UNCHANGED <<n_fired, last_fire, has_alerted>>
    /\ IF cascade_alert_condition(c_has_alerted,
                                  time_since_last_change(now, c_last_change))
       THEN /\ c_n_fired' = c_n_fired + 1
            /\ c_has_alerted' = TRUE
       ELSE UNCHANGED <<c_n_fired, c_has_alerted>>
    /\ UNCHANGED <<inputs, now, main_pc, observer, playing, last_change, sound_key,
                   excluded_files, excluded_folders, delay, c_last_change, threads,
                   on_modified_history>>

NextPair == PairTick \/ PairStart \/ PairChange \/ PairPoll

SpecPair == InitPair /\ [][NextPair]_vars

====
